---- MODULE Spec2Model ----
(***************************************************************************)
(* Model of hassil/intents.py: the slot list decoder (_parse_list,         *)
(* RangeSlotList), the entity filter engine (EntitySlotFilter,             *)
(* EntitySlotList), the sentence prioritizer (IntentData.sentences) and    *)
(* the intent model builder (Intents.from_dict).                           *)
(*                                                                         *)
(* Python objects are records carrying a "type" field; a dict is a         *)
(* function whose DOMAIN is its key set; an exception leaving a call is a  *)
(* record [type |-> <exception class>, msg |-> <its message>].             *)
(***************************************************************************)
EXTENDS Integers, Sequences, FiniteSets, TLC

VARIABLES
    call,           \* the pending call of a decoder function: name and arguments
    ret,            \* what that call returned or raised
    slot_lists,     \* the slot-list mapping handed to EntitySlotList.apply
    entity_list,    \* the EntitySlotList decoded from its list spec
    out,            \* what the last apply / apply_filters call returned or raised
    intent_data,    \* one IntentData instance (sentence_texts, wildcard_list_names)
    instance_dict,  \* that instance's __dict__, where cached_property stores
    pc,             \* per reader: position inside the access to .sentences
    val,            \* per reader: the local `val` of cached_property.__get__
    observed        \* per reader: the value its last access returned

vars == <<call, ret, slot_lists, entity_list, out,
          intent_data, instance_dict, pc, val, observed>>

decodeVars   == <<call, ret>>
entityVars   == <<slot_lists, entity_list, out>>
sentenceVars == <<intent_data, instance_dict, pc, val, observed>>

(***************************************************************************)
(* Bounds                                                                  *)
(***************************************************************************)
MaxSentences == 3   \* longest sentence_texts of an IntentData
NumReaders   == 2   \* concurrent readers of one IntentData
MaxValues    == 2   \* longest TextSlotList.values
MaxFilters   == 2   \* longest EntitySlotList.filters
MaxInt       == 2   \* range from/to/step are drawn from -1..MaxInt

(***************************************************************************)
(* Python values                                                           *)
(***************************************************************************)
None      == [type |-> "NoneType"]
NotFound  == [type |-> "_NOT_FOUND"]
PyStr(s)  == [type |-> "str", v |-> s]
PyBool(b) == [type |-> "bool", v |-> b]
PyInt(n)  == [type |-> "int", v |-> n]
PyList(q) == [type |-> "list", items |-> q]
PyDict(f) == [type |-> "dict", items |-> f]
EmptyDict == PyDict([k \in {} |-> None])

Raise(cls, msg) == [type |-> cls, msg |-> msg]
IsError(r) == r.type \in {"ValueError", "AssertionError", "AttributeError"}

\* d.get(key, default), and `key in d`
DictGet(d, key, default) == IF key \in DOMAIN d.items THEN d.items[key] ELSE default
HasKey(d, key) == key \in DOMAIN d.items

\* Python truth value testing, as `if x`, `x and y`, `not x` apply it
Truthy(x) ==
    CASE x.type = "NoneType" -> FALSE
      [] x.type = "bool"     -> x.v
      [] x.type = "str"      -> x.v # ""
      [] x.type = "int"      -> x.v # 0
      [] x.type = "list"     -> Len(x.items) > 0
      [] x.type = "dict"     -> DOMAIN x.items # {}
      [] OTHER               -> TRUE

\* all sequences over S of length at most n
SeqUpTo(S, n) == UNION {[1..k -> S] : k \in 0..n}

(***************************************************************************)
(* Sentence prioritizer: IntentData.sentences, IntentData._sentence_order  *)
(***************************************************************************)
TextChunk(text)         == [type |-> "TextChunk", text |-> text]
ListReference(listName) == [type |-> "ListReference", list_name |-> listName]

\* The template parser's result for each sentence text of the model.
Template ==
    [t \in {"play {album} by {artist}", "play {album} by {artist} in {room}",
            "queue {album} in {room}", "{room}", "turn on the lights"} |->
        CASE t = "play {album} by {artist}" ->
                 <<TextChunk("play "), ListReference("album"),
                   TextChunk(" by "), ListReference("artist")>>
          [] t = "play {album} by {artist} in {room}" ->
                 <<TextChunk("play "), ListReference("album"),
                   TextChunk(" by "), ListReference("artist"),
                   TextChunk(" in "), ListReference("room")>>
          [] t = "queue {album} in {room}" ->
                 <<TextChunk("queue "), ListReference("album"),
                   TextChunk(" in "), ListReference("room")>>
          [] t = "{room}" ->
                 <<ListReference("room")>>
          [] t = "turn on the lights" ->
                 <<TextChunk("turn on the lights")>>]

SentenceTexts == DOMAIN Template
WildcardNameSets == {{}, {"room"}, {"album"}}

parse_sentence(text, keep_text) ==
    [type |-> "Sentence", exp |-> Template[text],
     text |-> IF keep_text THEN PyStr(text) ELSE None]

list_names(sentence) ==
    {sentence.exp[i].list_name :
        i \in {j \in 1..Len(sentence.exp) : sentence.exp[j].type = "ListReference"}}

text_chunk_count(sentence) ==
    Cardinality({j \in 1..Len(sentence.exp) : sentence.exp[j].type = "TextChunk"})

IntentData(sentence_texts, wildcard_list_names) ==
    [type |-> "IntentData", sentence_texts |-> sentence_texts,
     wildcard_list_names |-> wildcard_list_names]

\* _sentence_order with the sign of the wildcard key lost
_sentence_order_positive(self, sentence) ==
    LET has_wildcards ==
            /\ self.wildcard_list_names # {}
            /\ \E list_name \in list_names(sentence) :
                   list_name \in self.wildcard_list_names
    IN  IF has_wildcards THEN text_chunk_count(sentence) ELSE 0

\* _sentence_order keyed on whether the sentence references any list at all
_sentence_order_any_list(self, sentence) ==
    LET has_wildcards ==
            /\ self.wildcard_list_names # {}
            /\ list_names(sentence) # {}
    IN  IF has_wildcards THEN -text_chunk_count(sentence) ELSE 0

_sentence_order(self, sentence) ==
    LET has_wildcards ==
            /\ self.wildcard_list_names # {}
            /\ \E list_name \in list_names(sentence) :
                   list_name \in self.wildcard_list_names
    IN  IF has_wildcards THEN -text_chunk_count(sentence) ELSE 0

\* sorted() that puts equal keys in reverse input order
sorted_unstable(seq, key) ==
    LET n == Len(seq)
        rank(i) == 1 + Cardinality({j \in 1..n :
                         \/ key[seq[j]] < key[seq[i]]
                         \/ key[seq[j]] = key[seq[i]] /\ j > i})
    IN  [p \in 1..n |-> seq[CHOOSE i \in 1..n : rank(i) = p]]

\* Python's sorted(seq, key=key): ascending by key, stable; key is the
\* function from the elements to their keys
sorted(seq, key) ==
    LET n == Len(seq)
        rank(i) == 1 + Cardinality({j \in 1..n :
                         \/ key[seq[j]] < key[seq[i]]
                         \/ key[seq[j]] = key[seq[i]] /\ j < i})
    IN  [p \in 1..n |-> seq[CHOOSE i \in 1..n : rank(i) = p]]

\* the list comprehension of IntentData.sentences
parsed_sentences(self) ==
    [i \in 1..Len(self.sentence_texts) |->
        parse_sentence(self.sentence_texts[i], TRUE)]

\* the body of the cached property IntentData.sentences
sentences(self) ==
    LET parsed == parsed_sentences(self)
        key == [sentence \in {parsed[i] : i \in 1..Len(parsed)} |->
                   _sentence_order(self, sentence)]
    IN  PyList(sorted(parsed, key))

Readers == 1..NumReaders

NoAttrs == [k \in {} |-> None]

InitSentences ==
    /\ intent_data \in {IntentData(texts, names) :
           texts \in SeqUpTo(SentenceTexts, MaxSentences), names \in WildcardNameSets}
    /\ instance_dict = NoAttrs
    /\ pc = [r \in Readers |-> "idle"]
    /\ val = [r \in Readers |-> NotFound]
    /\ observed = [r \in Readers |-> NotFound]
    /\ call = None /\ ret = None
    /\ slot_lists = EmptyDict /\ entity_list = None /\ out = None

\* `self.sentences`: an entry of the instance __dict__ shadows the
\* non-data descriptor; otherwise cached_property.__get__ is entered
Lookup(r) ==
    /\ pc[r] = "idle"
    /\ IF "sentences" \in DOMAIN instance_dict
       THEN /\ observed' = [observed EXCEPT ![r] = instance_dict["sentences"]]
            /\ pc' = [pc EXCEPT ![r] = "done"]
       ELSE /\ pc' = [pc EXCEPT ![r] = "get"]
            /\ UNCHANGED observed
    /\ UNCHANGED <<intent_data, instance_dict, val, decodeVars, entityVars>>

\* cached_property.__get__: val = cache.get(attrname, _NOT_FOUND); a value
\* that is found is returned
CacheGet(r) ==
    /\ pc[r] = "get"
    /\ IF "sentences" \in DOMAIN instance_dict
       THEN /\ val' = [val EXCEPT ![r] = instance_dict["sentences"]]
            /\ observed' = [observed EXCEPT ![r] = instance_dict["sentences"]]
            /\ pc' = [pc EXCEPT ![r] = "done"]
       ELSE /\ val' = [val EXCEPT ![r] = NotFound]
            /\ pc' = [pc EXCEPT ![r] = "compute"]
            /\ UNCHANGED observed
    /\ UNCHANGED <<intent_data, instance_dict, decodeVars, entityVars>>

\* if val is _NOT_FOUND: val = self.func(instance)
Compute(r) ==
    /\ pc[r] = "compute"
    /\ val' = [val EXCEPT ![r] = sentences(intent_data)]
    /\ pc' = [pc EXCEPT ![r] = "store"]
    /\ UNCHANGED <<intent_data, instance_dict, observed, decodeVars, entityVars>>

\* Store that caches the unsorted comprehension instead of the sorted list
StoreUnsorted(r) ==
    /\ pc[r] = "store"
    /\ instance_dict' = ("sentences" :> PyList(parsed_sentences(intent_data)))
    /\ observed' = [observed EXCEPT ![r] = val[r]]
    /\ pc' = [pc EXCEPT ![r] = "done"]
    /\ UNCHANGED <<intent_data, val, decodeVars, entityVars>>

\* cache[self.attrname] = val; return val
Store(r) ==
    /\ pc[r] = "store"
    /\ instance_dict' = ("sentences" :> val[r])
    /\ observed' = [observed EXCEPT ![r] = val[r]]
    /\ pc' = [pc EXCEPT ![r] = "done"]
    /\ UNCHANGED <<intent_data, val, decodeVars, entityVars>>

\* the reader accesses `self.sentences` again
Again(r) ==
    /\ pc[r] = "done"
    /\ pc' = [pc EXCEPT ![r] = "idle"]
    /\ val' = [val EXCEPT ![r] = NotFound]
    /\ UNCHANGED <<intent_data, instance_dict, observed, decodeVars, entityVars>>

NextSentences ==
    \E r \in Readers :
        \/ Lookup(r)
        \/ CacheGet(r)
        \/ Compute(r)
        \/ Store(r)
        \/ Again(r)

SpecSentences == InitSentences /\ [][NextSentences]_vars

(***************************************************************************)
(* Properties of the sentence prioritizer                                  *)
(***************************************************************************)
\* every value of `sentences` the program has stored or handed to a reader
Produced ==
    ({observed[r] : r \in Readers} \ {NotFound})
        \cup {instance_dict[k] : k \in DOMAIN instance_dict}

InputSentences == parsed_sentences(intent_data)

ReferencesWildcard(sentence) ==
    list_names(sentence) \cap intent_data.wildcard_list_names # {}

Occurrences(seq, x) == Cardinality({i \in 1..Len(seq) : seq[i] = x})

IsPermutation(a, b) ==
    /\ Len(a) = Len(b)
    /\ \A i \in 1..Len(a) : Occurrences(a, a[i]) = Occurrences(b, a[i])

NonReferencing(seq) ==
    LET Test(sentence) == ~ReferencesWildcard(sentence)
    IN  SelectSeq(seq, Test)

ReferencingWithCount(seq, n) ==
    LET Test(sentence) ==
            ReferencesWildcard(sentence) /\ text_chunk_count(sentence) = n
    IN  SelectSeq(seq, Test)

\* C5: the prioritized sequence is a permutation of the parsed
\* sentence_texts, the sentences that reference no wildcard list keep their
\* input order, and with an empty wildcard-name set the sequence is the input.
C5_PermutationKeepsNonWildcardOrder ==
    \A q \in Produced :
        /\ IsPermutation(q.items, InputSentences)
        /\ NonReferencing(q.items) = NonReferencing(InputSentences)
        /\ (intent_data.wildcard_list_names = {} => q.items = InputSentences)

\* a cached ordering that differs from the input and holds two different
\* sentences that reference no wildcard list
C5_Witness ==
    /\ "sentences" \in DOMAIN instance_dict
    /\ instance_dict["sentences"].items # InputSentences
    /\ Cardinality({NonReferencing(InputSentences)[i] :
                       i \in 1..Len(NonReferencing(InputSentences))}) >= 2

\* C6: with a non-empty wildcard-name set, of two sentences that both
\* reference a wildcard list the one with strictly more text chunks comes
\* first, and those with equal counts keep their input order.
C6_MoreLiteralTextFirst ==
    intent_data.wildcard_list_names # {} =>
        \A q \in Produced :
            /\ \A i, j \in 1..Len(q.items) :
                   ( /\ ReferencesWildcard(q.items[i])
                     /\ ReferencesWildcard(q.items[j])
                     /\ text_chunk_count(q.items[i]) > text_chunk_count(q.items[j]) )
                   => i < j
            /\ \A n \in 0..6 :
                   ReferencingWithCount(q.items, n)
                       = ReferencingWithCount(InputSentences, n)

\* a cached ordering in which a wildcard sentence was moved ahead of a
\* wildcard sentence with fewer text chunks that preceded it in the input,
\* and two different wildcard sentences have equal counts
C6_Witness ==
    /\ "sentences" \in DOMAIN instance_dict
    /\ \E i, j \in 1..Len(InputSentences) :
           /\ i < j
           /\ ReferencesWildcard(InputSentences[i])
           /\ ReferencesWildcard(InputSentences[j])
           /\ text_chunk_count(InputSentences[i]) < text_chunk_count(InputSentences[j])
    /\ \E i, j \in 1..Len(InputSentences) :
           /\ InputSentences[i] # InputSentences[j]
           /\ ReferencesWildcard(InputSentences[i])
           /\ ReferencesWildcard(InputSentences[j])
           /\ text_chunk_count(InputSentences[i]) = text_chunk_count(InputSentences[j])

\* C7: with a non-empty wildcard-name set, a sentence that references a
\* wildcard list and has at least one text chunk comes before every sentence
\* that references no wildcard list.
C7_WildcardBeforeNonWildcard ==
    intent_data.wildcard_list_names # {} =>
        \A q \in Produced :
            \A i, j \in 1..Len(q.items) :
                ( /\ ReferencesWildcard(q.items[i])
                  /\ text_chunk_count(q.items[i]) >= 1
                  /\ ~ReferencesWildcard(q.items[j]) )
                => i < j

\* the documented example: wildcard names {room}, input
\* "play {album} by {artist}" then "play {album} by {artist} in {room}"
C7_Witness ==
    /\ intent_data.wildcard_list_names = {"room"}
    /\ intent_data.sentence_texts =
           <<"play {album} by {artist}", "play {album} by {artist} in {room}">>
    /\ "sentences" \in DOMAIN instance_dict
    /\ instance_dict["sentences"].items[1].text
           = PyStr("play {album} by {artist} in {room}")

TextSlotValue(text_in, value_out, context) ==
    [type |-> "TextSlotValue", text_in |-> text_in,
     value_out |-> value_out, context |-> context]

TextSlotList(values) == [type |-> "TextSlotList", values |-> values]

WildcardSlotList == [type |-> "WildcardSlotList"]

EntitySlotFilter(domain, device_class) ==
    [type |-> "EntitySlotFilter", domain |-> domain, device_class |-> device_class]

EntitySlotList(filters, target_name) ==
    [type |-> "EntitySlotList", filters |-> filters, target_name |-> target_name]

RangeTypes == {"number", "percentage", "temperature"}

\* RangeType(value): the enum lookup by value
RangeType(value) ==
    IF value.type = "str" /\ value.v \in RangeTypes
    THEN [type |-> "RangeType", v |-> value.v]
    ELSE Raise("ValueError", "not a valid RangeType")

\* RangeSlotList.__post_init__ that accepts start = stop
RangeSlotList_allows_empty(start, stop, step, range_type, digits, words) ==
    IF ~(start <= stop)
    THEN Raise("AssertionError", "start must be less than stop")
    ELSE IF ~(step > 0)
    THEN Raise("AssertionError", "step must be positive")
    ELSE IF ~(digits \/ words)
    THEN Raise("AssertionError", "must have digits, words, or both")
    ELSE [type |-> "RangeSlotList", start |-> start, stop |-> stop, step |-> step,
          range_type |-> range_type, digits |-> digits, words |-> words]

\* RangeSlotList(...): the dataclass constructor followed by __post_init__
RangeSlotList(start, stop, step, range_type, digits, words) ==
    IF ~(start < stop)
    THEN Raise("AssertionError", "start must be less than stop")
    ELSE IF ~(step > 0)
    THEN Raise("AssertionError", "step must be positive")
    ELSE IF ~(digits \/ words)
    THEN Raise("AssertionError", "must have digits, words, or both")
    ELSE [type |-> "RangeSlotList", start |-> start, stop |-> stop, step |-> step,
          range_type |-> range_type, digits |-> digits, words |-> words]

(***************************************************************************)
(* Slot list decoder: _parse_list, _maybe_parse_template                   *)
(***************************************************************************)
\* the text normalizer's results for the value texts of the model
Normalized ==
    [t \in {"kitchen", " Kitchen ", "{room}"} |->
        CASE t = " Kitchen " -> "Kitchen"
          [] OTHER          -> t]

is_template(text) == text \in DOMAIN Template /\ text # "turn on the lights"

normalize_text(text) == Normalized[text]

_maybe_parse_template(text, allow_template) ==
    IF allow_template /\ is_template(text)
    THEN parse_sentence(text, FALSE)
    ELSE TextChunk(normalize_text(text))

\* the `values` branch
parse_text_values(list_dict, allow_template) ==
    LET values == list_dict.items["values"].items
        text_value(value) ==
            IF value.type = "str"
            THEN TextSlotValue(_maybe_parse_template(value.v, allow_template),
                               value, None)
            ELSE TextSlotValue(
                     _maybe_parse_template(value.items["in"].v, allow_template),
                     value.items["out"],
                     DictGet(value, "context", None))
    IN  TextSlotList([i \in 1..Len(values) |-> text_value(values[i])])

\* the `range` branch; keyword arguments are evaluated in the order written,
\* so a bad type is raised before the range is constructed
parse_range(list_dict) ==
    LET range_dict == list_dict.items["range"]
        range_type == RangeType(DictGet(range_dict, "type", PyStr("number")))
    IN  IF IsError(range_type) THEN range_type
        ELSE RangeSlotList(range_dict.items["from"].v,
                           range_dict.items["to"].v,
                           DictGet(range_dict, "step", PyInt(1)).v,
                           range_type, TRUE, TRUE)

\* the `entities` branch
parse_entities(list_dict) ==
    LET entity_filter_dict == list_dict.items["entities"]
        given    == DictGet(entity_filter_dict, "filters", None)
        or_empty == IF given = None THEN PyList(<<>>) ELSE given
        filters  == IF or_empty.type # "list" THEN PyList(<<or_empty>>) ELSE or_empty
    IN  EntitySlotList(
            [i \in 1..Len(filters.items) |->
                EntitySlotFilter(DictGet(filters.items[i], "domain", None),
                                 DictGet(filters.items[i], "device_class", None))],
            DictGet(entity_filter_dict, "target", None))

\* _parse_list that tests the wildcard flag before the range key
_parse_list_wildcard_first(list_dict, allow_template) ==
    IF HasKey(list_dict, "values")
    THEN parse_text_values(list_dict, allow_template)
    ELSE IF Truthy(DictGet(list_dict, "wildcard", PyBool(FALSE)))
    THEN WildcardSlotList
    ELSE IF HasKey(list_dict, "range")
    THEN parse_range(list_dict)
    ELSE IF HasKey(list_dict, "entities")
    THEN parse_entities(list_dict)
    ELSE Raise("ValueError", "Unknown slot list type")

_parse_list(list_dict, allow_template) ==
    IF HasKey(list_dict, "values")
    THEN parse_text_values(list_dict, allow_template)
    ELSE IF HasKey(list_dict, "range")
    THEN parse_range(list_dict)
    ELSE IF Truthy(DictGet(list_dict, "wildcard", PyBool(FALSE)))
    THEN WildcardSlotList
    ELSE IF HasKey(list_dict, "entities")
    THEN parse_entities(list_dict)
    ELSE Raise("ValueError", "Unknown slot list type")

(***************************************************************************)
(* Intent model builder: Intents.from_dict                                 *)
(***************************************************************************)
Intent(name, data) == [type |-> "Intent", name |-> name, data |-> data]

\* A mapping of the document whose iteration order matters is kept as the
\* sequence of its <<key, value>> items.
wildcard_names_of(lists) ==
    {lists[i][1] : i \in {j \in 1..Len(lists) :
        Truthy(DictGet(lists[j][2], "wildcard", PyBool(FALSE)))}}

RECURSIVE parse_lists(_, _)
\* the dict comprehension building slot_lists: the first list spec that fails
\* to decode ends the whole call with its error
parse_lists(lists, done) ==
    IF lists = <<>> THEN PyDict(done)
    ELSE LET decoded == _parse_list(Head(lists)[2], TRUE)
         IN  IF IsError(decoded) THEN decoded
             ELSE parse_lists(Tail(lists), (Head(lists)[1] :> decoded) @@ done)

from_dict(input_dict) ==
    LET lists == DictGet(input_dict, "lists", <<>>)
        wildcard_list_names == wildcard_names_of(lists)
        intents_in == input_dict.items["intents"]
        intents ==
            [intent_name \in DOMAIN intents_in |->
                Intent(intent_name,
                       [i \in 1..Len(intents_in[intent_name]) |->
                           IntentData(intents_in[intent_name][i].items["sentences"],
                                      wildcard_list_names)])]
        decoded_lists == parse_lists(lists, NoAttrs)
    IN  IF IsError(decoded_lists) THEN decoded_lists
        ELSE [type |-> "Intents", language |-> input_dict.items["language"],
              intents |-> intents, slot_lists |-> decoded_lists]

(***************************************************************************)
(* Inputs of the decoder                                                   *)
(***************************************************************************)
Ints == -1..MaxInt

\* the ways an optional key can appear in a dict: absent, or with a value of S
Opt(key, S) == {NoAttrs} \cup {key :> v : v \in S}

ValueEntries ==
    { PyStr("kitchen"), PyStr("{room}"),
      PyDict(("in" :> PyStr(" Kitchen ")) @@ ("out" :> PyInt(1))
                 @@ ("context" :> PyDict("domain" :> PyStr("light")))),
      PyDict(("in" :> PyStr("kitchen")) @@ ("out" :> PyInt(2))) }

FilterDicts ==
    { EmptyDict,
      PyDict("domain" :> PyStr("")),
      PyDict("domain" :> PyStr("light")),
      PyDict("device_class" :> PyStr("motion")),
      PyDict(("domain" :> PyStr("light")) @@ ("device_class" :> PyStr("motion"))) }

ValuesPayloads == {PyList(q) : q \in SeqUpTo(ValueEntries, MaxValues)}

RangePayloads ==
    {PyDict(("from" :> PyInt(a)) @@ ("to" :> PyInt(b)) @@ st @@ ty) :
        a \in Ints, b \in Ints,
        st \in Opt("step", {PyInt(n) : n \in Ints}),
        ty \in Opt("type", {PyStr("percentage"), PyStr("celsius")})}

EntitiesPayloads ==
    {PyDict(f @@ t) :
        f \in Opt("filters",
                  FilterDicts \cup {PyList(q) : q \in SeqUpTo(FilterDicts, MaxFilters)}),
        t \in Opt("target", {PyStr("entity_names"), PyStr("ghost")})}

SimpleValues   == {PyList(<<PyStr("kitchen")>>)}
SimpleRange    == {PyDict(("from" :> PyInt(0)) @@ ("to" :> PyInt(2)))}
SimpleEntities == {PyDict("target" :> PyStr("entity_names"))}

ListDictsOver(VS, RS, ES) ==
    {PyDict(v @@ r @@ w @@ e) :
        v \in Opt("values", VS), r \in Opt("range", RS),
        w \in Opt("wildcard", {PyBool(TRUE), PyBool(FALSE)}),
        e \in Opt("entities", ES)}

\* every combination of the four keys, each payload in turn ranging over
\* all its shapes
ListDicts ==
    ListDictsOver(ValuesPayloads, SimpleRange, SimpleEntities)
        \cup ListDictsOver(SimpleValues, RangePayloads, SimpleEntities)
        \cup ListDictsOver(SimpleValues, SimpleRange, EntitiesPayloads)

DocumentListDicts ==
    ListDictsOver(SimpleValues, SimpleRange, SimpleEntities)
        \cup {PyDict("range" :> PyDict(("from" :> PyInt(2)) @@ ("to" :> PyInt(0))))}

DocumentLists ==
    {<< >>}
        \cup {<< <<n, d>> >> : n \in {"room", "area"}, d \in DocumentListDicts}
        \cup {<< <<n[1], d1>>, <<n[2], d2>> >> :
                 n \in {<<"room", "area">>, <<"area", "room">>},
                 d1 \in DocumentListDicts, d2 \in DocumentListDicts}

DataDict(texts) == PyDict("sentences" :> texts)

DocumentIntents ==
    { "PlayMusic" :> << DataDict(<<"play {album} by {artist}",
                                   "play {album} by {artist} in {room}">>),
                        DataDict(<<"queue {album} in {room}">>) >>,
      ("PlayMusic" :> << DataDict(<<"play {album} by {artist}">>) >>)
          @@ ("TurnOn" :> << DataDict(<<"turn on the lights">>) >>) }

Documents ==
    {PyDict(("language" :> PyStr("en")) @@ ("intents" :> i) @@ l) :
        i \in DocumentIntents, l \in Opt("lists", DocumentLists)}

(***************************************************************************)
(* Decoder calls                                                           *)
(***************************************************************************)
InitDecode ==
    /\ call \in
           {[fn |-> "_parse_list", list_dict |-> d, allow_template |-> a] :
               d \in ListDicts, a \in BOOLEAN}
           \cup {[fn |-> "RangeSlotList", start |-> a, stop |-> b, step |-> c,
                  digits |-> d, words |-> w] :
               a \in Ints, b \in Ints, c \in Ints, d \in BOOLEAN, w \in BOOLEAN}
           \cup {[fn |-> "from_dict", input_dict |-> doc] : doc \in Documents}
    /\ ret = None
    /\ slot_lists = EmptyDict /\ entity_list = None /\ out = None
    /\ intent_data = None /\ instance_dict = NoAttrs
    /\ pc = << >> /\ val = << >> /\ observed = << >>

ParseList ==
    /\ call.fn = "_parse_list"
    /\ ret = None
    /\ ret' = _parse_list(call.list_dict, call.allow_template)
    /\ UNCHANGED <<call, entityVars, sentenceVars>>

NewRangeSlotList ==
    /\ call.fn = "RangeSlotList"
    /\ ret = None
    /\ ret' = RangeSlotList(call.start, call.stop, call.step,
                            RangeType(PyStr("number")), call.digits, call.words)
    /\ UNCHANGED <<call, entityVars, sentenceVars>>

FromDict ==
    /\ call.fn = "from_dict"
    /\ ret = None
    /\ ret' = from_dict(call.input_dict)
    /\ UNCHANGED <<call, entityVars, sentenceVars>>

NextDecode ==
    \/ ParseList
    \/ NewRangeSlotList
    \/ FromDict

SpecDecode == InitDecode /\ [][NextDecode]_vars

(***************************************************************************)
(* Properties of the decoder                                               *)
(***************************************************************************)
Present(d, key) == key \in DOMAIN d.items

WildcardFlagTrue(d) == Present(d, "wildcard") /\ d.items["wildcard"] = PyBool(TRUE)

\* the range spec names a known type and satisfies from < to, step > 0
RangeSpecValid(r) ==
    /\ Present(r, "type") => r.items["type"].v \in RangeTypes
    /\ r.items["from"].v < r.items["to"].v
    /\ Present(r, "step") => r.items["step"].v > 0

UnknownListType == Raise("ValueError", "Unknown slot list type")

\* C4: _parse_list selects the variant by the precedence values, range,
\* wildcard flag true, entities, and fails with the unknown-list-type error
\* when none applies; a range spec that is selected but invalid ends in the
\* range's own error, never in another variant.
C4_VariantPrecedence ==
    (call.fn = "_parse_list" /\ ret # None) =>
        LET d == call.list_dict IN
        IF Present(d, "values") THEN ret.type = "TextSlotList"
        ELSE IF Present(d, "range")
        THEN IF RangeSpecValid(d.items["range"])
             THEN ret.type = "RangeSlotList"
             ELSE IsError(ret) /\ ret # UnknownListType
        ELSE IF WildcardFlagTrue(d) THEN ret.type = "WildcardSlotList"
        ELSE IF Present(d, "entities") THEN ret.type = "EntitySlotList"
        ELSE ret = UnknownListType

\* a decoded spec that carries all four keys with the wildcard flag true
C4_Witness ==
    /\ call.fn = "_parse_list"
    /\ ret # None
    /\ Present(call.list_dict, "values")
    /\ Present(call.list_dict, "range")
    /\ WildcardFlagTrue(call.list_dict)
    /\ Present(call.list_dict, "entities")

\* a decoded spec with the wildcard flag false and no other key
C4_WitnessUnknown ==
    /\ call.fn = "_parse_list"
    /\ call.list_dict = PyDict("wildcard" :> PyBool(FALSE))
    /\ ret = UnknownListType

\* C8: constructing a RangeSlotList succeeds exactly when start < stop,
\* step > 0 and (digits or words), and ends in an error otherwise; the same
\* holds for the range _parse_list builds from a range spec.
C8_RangeValidated ==
    /\ (call.fn = "RangeSlotList" /\ ret # None) =>
           /\ ret.type = "RangeSlotList"
                  <=> ( /\ call.start < call.stop
                        /\ call.step > 0
                        /\ (call.digits \/ call.words) )
           /\ ret.type # "RangeSlotList" => IsError(ret)
    /\ ( /\ call.fn = "_parse_list"
         /\ ret # None
         /\ ~Present(call.list_dict, "values")
         /\ Present(call.list_dict, "range") ) =>
           LET r == call.list_dict.items["range"]
               step == IF Present(r, "step") THEN r.items["step"].v ELSE 1
           IN  /\ ret.type = "RangeSlotList"
                      => (r.items["from"].v < r.items["to"].v /\ step > 0)
               /\ ( /\ r.items["from"].v < r.items["to"].v
                    /\ step > 0
                    /\ (Present(r, "type") => r.items["type"].v \in RangeTypes) )
                      => ret.type = "RangeSlotList"
               /\ ret.type # "RangeSlotList" => IsError(ret)

\* a construction rejected only because digits and words are both false
C8_Witness ==
    /\ call.fn = "RangeSlotList"
    /\ call.start < call.stop
    /\ call.step > 0
    /\ ~call.digits /\ ~call.words
    /\ ret.type = "AssertionError"

\* C10: after from_dict succeeds every IntentData carries the same
\* wildcard-list-name set, and every name in it is the name of a slot list
\* that was decoded as a WildcardSlotList.
C10_WildcardNamesAreWildcardLists ==
    (call.fn = "from_dict" /\ ret # None /\ ret.type = "Intents") =>
        \A n1 \in DOMAIN ret.intents :
            \A i1 \in 1..Len(ret.intents[n1].data) :
                LET data == ret.intents[n1].data[i1] IN
                /\ \A n2 \in DOMAIN ret.intents :
                       \A i2 \in 1..Len(ret.intents[n2].data) :
                           ret.intents[n2].data[i2].wildcard_list_names
                               = data.wildcard_list_names
                /\ \A name \in data.wildcard_list_names :
                       /\ name \in DOMAIN ret.slot_lists.items
                       /\ ret.slot_lists.items[name].type = "WildcardSlotList"

(***************************************************************************)
(* Entity filter engine: EntitySlotFilter.apply, EntitySlotList.apply,     *)
(* EntitySlotList.apply_filters                                            *)
(***************************************************************************)
\* EntitySlotFilter.apply that requires the domain or the device class
EntitySlotFilter_apply_either(self, entity) ==
    IF ~Truthy(entity.context) THEN FALSE
    ELSE IF /\ Truthy(self.domain)
            /\ DictGet(entity.context, "domain", PyStr("")) # self.domain
            /\ Truthy(self.device_class)
            /\ DictGet(entity.context, "device_class", PyStr("")) # self.device_class
    THEN FALSE
    ELSE TRUE

EntitySlotFilter_apply(self, entity) ==
    IF ~Truthy(entity.context) THEN FALSE
    ELSE IF /\ Truthy(self.domain)
            /\ DictGet(entity.context, "domain", PyStr("")) # self.domain
    THEN FALSE
    ELSE IF /\ Truthy(self.device_class)
            /\ DictGet(entity.context, "device_class", PyStr("")) # self.device_class
    THEN FALSE
    ELSE TRUE

RECURSIVE skip_value(_, _)
\* the inner loop: skip_value stays True until a filter applies
skip_value(filters, entity) ==
    IF filters = <<>> THEN TRUE
    ELSE IF EntitySlotFilter_apply(Head(filters), entity) THEN FALSE
    ELSE skip_value(Tail(filters), entity)

RECURSIVE filter_entities(_, _, _)
\* the outer loop over target.values, appending to filtered_entities
filter_entities(filters, values, filtered_entities) ==
    IF values = <<>> THEN filtered_entities
    ELSE filter_entities(filters, Tail(values),
             IF skip_value(filters, Head(values))
             THEN filtered_entities
             ELSE Append(filtered_entities, Head(values)))

apply_filters(filters, target, allow_template) ==
    IF "values" \notin DOMAIN target
    THEN Raise("AttributeError", "object has no attribute 'values'")
    ELSE TextSlotList(filter_entities(filters, target.values, <<>>))

\* slot_lists.get(self.target_name)
GetList(mapping, target_name) ==
    IF target_name.type = "str" /\ target_name.v \in DOMAIN mapping.items
    THEN mapping.items[target_name.v]
    ELSE None

\* EntitySlotList.apply that answers a missing target with an empty list
EntitySlotList_apply_silent(self, mapping) ==
    LET target == PyBool(GetList(mapping, self.target_name) = None)
    IN  IF Truthy(target)
        THEN TextSlotList(<<>>)
        ELSE apply_filters(self.filters, target, TRUE)

\* EntitySlotList.apply: `target := slot_lists.get(...) is None` binds the
\* result of the comparison, so target is a bool
EntitySlotList_apply(self, mapping) ==
    LET target == PyBool(GetList(mapping, self.target_name) = None)
    IN  IF Truthy(target)
        THEN Raise("ValueError", "Missing slot list")
        ELSE apply_filters(self.filters, target, TRUE)

(***************************************************************************)
(* Entity lists in use                                                     *)
(***************************************************************************)
TargetValues ==
    { TextSlotValue(TextChunk("a"), PyInt(1), PyDict("domain" :> PyStr("light"))),
      TextSlotValue(TextChunk("b"), PyInt(2), PyDict("domain" :> PyStr("switch"))),
      TextSlotValue(TextChunk("c"), PyInt(3), None),
      TextSlotValue(TextChunk("d"), PyInt(4), EmptyDict),
      TextSlotValue(TextChunk("e"), PyInt(5), PyDict("device_class" :> PyStr("motion"))),
      TextSlotValue(TextChunk("f"), PyInt(6),
          PyDict(("domain" :> PyStr("light")) @@ ("device_class" :> PyStr("motion")))) }

ListNames == {"entity_names"}

EntityListSpecs == {PyDict("entities" :> e) : e \in EntitiesPayloads}

InitEntity ==
    /\ slot_lists = EmptyDict
    /\ entity_list = None
    /\ out = None
    /\ call = None /\ ret = None
    /\ intent_data = None /\ instance_dict = NoAttrs
    /\ pc = << >> /\ val = << >> /\ observed = << >>

\* the list spec is decoded into the EntitySlotList
DecodeEntityList ==
    /\ entity_list = None
    /\ \E list_dict \in EntityListSpecs :
           entity_list' = _parse_list(list_dict, TRUE)
    /\ UNCHANGED <<slot_lists, out, decodeVars, sentenceVars>>

\* the caller puts a fresh TextSlotList under a name, replacing what was there
SetList ==
    \E name \in ListNames :
        /\ slot_lists' = PyDict((name :> TextSlotList(<<>>)) @@ slot_lists.items)
        /\ out' = None
        /\ UNCHANGED <<entity_list, decodeVars, sentenceVars>>

\* the caller appends a value to a list of the mapping
AppendValue ==
    \E name \in DOMAIN slot_lists.items, v \in TargetValues :
        /\ Len(slot_lists.items[name].values) < MaxValues
        /\ slot_lists' = PyDict([slot_lists.items EXCEPT
               ![name] = TextSlotList(Append(@.values, v))])
        /\ out' = None
        /\ UNCHANGED <<entity_list, decodeVars, sentenceVars>>

\* the caller removes a list from the mapping
RemoveList ==
    \E name \in DOMAIN slot_lists.items :
        /\ slot_lists' = PyDict([k \in DOMAIN slot_lists.items \ {name} |->
                                    slot_lists.items[k]])
        /\ out' = None
        /\ UNCHANGED <<entity_list, decodeVars, sentenceVars>>

\* entity_list.apply(slot_lists)
Apply ==
    /\ entity_list # None
    /\ out' = [op |-> "apply", result |-> EntitySlotList_apply(entity_list, slot_lists)]
    /\ UNCHANGED <<slot_lists, entity_list, decodeVars, sentenceVars>>

\* EntitySlotList.apply_filters(entity_list.filters, <a list of the mapping>)
ApplyFilters ==
    /\ entity_list # None
    /\ \E name \in DOMAIN slot_lists.items :
           out' = [op |-> "apply_filters", target |-> name,
                   result |-> apply_filters(entity_list.filters,
                                            slot_lists.items[name], TRUE)]
    /\ UNCHANGED <<slot_lists, entity_list, decodeVars, sentenceVars>>

NextEntity ==
    \/ DecodeEntityList
    \/ SetList
    \/ AppendValue
    \/ RemoveList
    \/ Apply
    \/ ApplyFilters

SpecEntity == InitEntity /\ [][NextEntity]_vars

(***************************************************************************)
(* Properties of the entity filter engine                                  *)
(***************************************************************************)
\* a filter field that is None or the empty string restricts nothing
Unset(field) == field = None \/ field = PyStr("")

HasNonEmptyContext(v) ==
    /\ v.context # None
    /\ DOMAIN v.context.items # {}

ContextIs(v, key, field) ==
    /\ key \in DOMAIN v.context.items
    /\ v.context.items[key] = field

MatchesSome(filters, v) ==
    /\ HasNonEmptyContext(v)
    /\ \E i \in 1..Len(filters) :
           /\ Unset(filters[i].domain) \/ ContextIs(v, "domain", filters[i].domain)
           /\ \/ Unset(filters[i].device_class)
              \/ ContextIs(v, "device_class", filters[i].device_class)

Matching(filters, values) ==
    LET Test(v) == MatchesSome(filters, v)
    IN  SelectSeq(values, Test)

TargetPresent ==
    /\ entity_list # None
    /\ entity_list.target_name # None
    /\ entity_list.target_name.v \in DOMAIN slot_lists.items

\* C1: apply_filters(F, T) returns the TextSlotList of exactly the values of
\* T, in T's order and once each, that carry a non-empty context and match
\* some filter of F on every field the filter sets (a field that is None or
\* empty is unset); an empty F gives an empty list, and a value without
\* context is left out without an error.
C1_ApplyFiltersSelectsMatching ==
    (out # None /\ out.op = "apply_filters") =>
        LET T == slot_lists.items[out.target]
            F == entity_list.filters
        IN  /\ out.result.type = "TextSlotList"
            /\ out.result.values = Matching(F, T.values)
            /\ F = <<>> => out.result.values = <<>>

\* two or more filters applied to a list from which some values are kept,
\* some rejected, and one has no context
C1_Witness ==
    /\ out # None
    /\ out.op = "apply_filters"
    /\ Len(entity_list.filters) >= 2
    /\ Len(out.result.values) >= 1
    /\ Len(out.result.values) < Len(slot_lists.items[out.target].values)
    /\ \E i \in 1..Len(slot_lists.items[out.target].values) :
           slot_lists.items[out.target].values[i].context = None

\* C2: when the mapping holds a TextSlotList T under the target name,
\* apply(M) completes and returns apply_filters(E.filters, T) for the T the
\* mapping holds at the call.
C2_ApplyReturnsFilteredTarget ==
    (out # None /\ out.op = "apply" /\ TargetPresent) =>
        /\ ~IsError(out.result)
        /\ out.result = apply_filters(entity_list.filters,
                            slot_lists.items[entity_list.target_name.v], TRUE)

\* C3: when the mapping does not hold the target name, apply(M) ends in the
\* missing-list error and returns no TextSlotList; a list spec decodes into
\* an EntitySlotList whether or not its target names a list of the mapping.
C3_MissingTargetIsAnError ==
    /\ (out # None /\ out.op = "apply" /\ ~TargetPresent) =>
           /\ out.result = Raise("ValueError", "Missing slot list")
           /\ out.result.type # "TextSlotList"
    /\ entity_list # None => entity_list.type = "EntitySlotList"

\* an entity list decoded with a target that no list of a non-empty mapping
\* carries, applied
C3_Witness ==
    /\ out # None
    /\ out.op = "apply"
    /\ entity_list.target_name = PyStr("ghost")
    /\ DOMAIN slot_lists.items # {}
    /\ IsError(out.result)

====
